---- MODULE Spec2Model ----
(***************************************************************************)
(* Model of transcription-daemon/geo-transcript-srv.py: the length-prefixed *)
(* request/reply protocol of handle_connection, the country resolution     *)
(* (contains_cjk, contains_thai, Coord2Country.getCountry) and the         *)
(* dispatch of transcriptor.transcript.                                    *)
(*                                                                         *)
(* Text is a sequence of Unicode code points.  The asyncio event loop is   *)
(* one thread: a handler runs from one await to the next without being     *)
(* interleaved, which the variable running records.  The locals of a       *)
(* handler are dead once it suspends in writer.drain() or ends, and are    *)
(* reset there.                                                            *)
(***************************************************************************)
EXTENDS Integers, Sequences, FiniteSets, TLC

\* ------------------------------------------------------------------ bounds
\* Number of complete request frames read on one connection.
MaxRequests == 2

\* The connections the listener accepts.
Conns == {"c1", "c2"}
NoConn == "none"

\* ------------------------------------------------------- program constants
\* '/' , the separator of data.split('/',3)
SLASH == 47
\* maxsplit of data.split('/',3)
MaxSplit == 3
\* reader.readexactly(4): size of the length prefix
PrefixLen == 4
\* contains_thai: (ord(c) > 0x0E00) and (ord(c) < 0x0E7F)
THAI_LO == 3584
THAI_HI == 3711
\* contains_cjk: (ord(c) > 0x4e00) and (ord(c) < 0x9FFF)
CJK_LO == 19968
CJK_HI == 40959

\* --------------------------------------------------------------- text
EmptyStr == <<>>
STR_jp == <<106, 112>>
STR_th == <<116, 104>>
STR_mo == <<109, 111>>
STR_hk == <<104, 107>>
STR_j == <<106>>
STR_a == <<97>>
STR_1 == <<49>>
STR_2 == <<50>>
\* an abstract romanization returned by a transcription engine
STR_A == <<65>>

\* len(text.encode('utf-8')) of one code point
Utf8Len(cp) == IF cp < 128 THEN 1 ELSE IF cp < 2048 THEN 2 ELSE IF cp < 65536 THEN 3 ELSE 4

RECURSIVE EncodedLen(_)
EncodedLen(s) == IF s = <<>> THEN 0 ELSE Utf8Len(Head(s)) + EncodedLen(Tail(s))

\* index of the first sep in s, 0 if there is none
RECURSIVE FindFrom(_, _, _)
FindFrom(s, sep, i) ==
  IF i > Len(s) THEN 0 ELSE IF s[i] = sep THEN i ELSE FindFrom(s, sep, i + 1)

\* str.split(sep, maxsplit): the list of fields
RECURSIVE Split(_, _, _)
Split(s, sep, maxsplit) ==
  LET i == FindFrom(s, sep, 1) IN
  IF maxsplit = 0 \/ i = 0 THEN <<s>>
  ELSE <<SubSeq(s, 1, i - 1)>> \o Split(SubSeq(s, i + 1, Len(s)), sep, maxsplit - 1)

\* the inverse used to build wire payloads: '/'.join(fields)
RECURSIVE Join(_)
Join(fields) ==
  IF Len(fields) = 1 THEN fields[1]
  ELSE fields[1] \o <<SLASH>> \o Join(Tail(fields))

\* ----------------------------------------------------- script classifier
contains_thai(text) ==
  \E i \in 1..Len(text) : text[i] > THAI_LO /\ text[i] < THAI_HI

contains_cjk(text) ==
  \E i \in 1..Len(text) : text[i] > CJK_LO /\ text[i] < CJK_HI

\* ------------------------------------------------------------ wire input
\* Payloads a peer sends.  Fields are joined with '/', the server splits them.
CCs == {EmptyStr, STR_jp, STR_th, STR_mo, STR_hk, STR_j}
Names4 == {EmptyStr, STR_a, <<THAI_LO>>, <<THAI_LO + 1>>, <<THAI_HI>>,
           <<CJK_LO>>, <<CJK_LO + 1>>, <<CJK_HI>>, <<CJK_LO + 1, THAI_LO + 1>>,
           <<97, SLASH, 97>>}

Payloads3 == {Join(<<STR_1, c, STR_a>>) : c \in CCs}
             \cup {Join(<<STR_1, EmptyStr, <<CJK_LO + 1>> >>),
                   Join(<<STR_1, STR_j, <<THAI_LO + 1>> >>),
                   Join(<<STR_1, STR_jp, EmptyStr>>)}
Payloads4 == {Join(<<STR_1, STR_1, STR_2, n>>) : n \in Names4}
             \cup {Join(<<STR_1, EmptyStr, EmptyStr, <<CJK_LO + 1>> >>)}
PayloadsShort == {STR_1, Join(<<STR_1, STR_a>>)}
Payloads == Payloads3 \cup Payloads4 \cup PayloadsShort

\* What the peer puts on the stream for one read_request: prefix bytes of the
\* length prefix arrive (4 = all of it), the prefix announces L payload bytes,
\* got of them arrive before the peer stops, text is their UTF-8 decoding and
\* valid tells whether they decode at all.
Frame(p) == [prefix |-> PrefixLen, L |-> EncodedLen(p), got |-> EncodedLen(p),
             text |-> p, valid |-> TRUE]
CompleteFrames == {Frame(p) : p \in Payloads}
ZeroFrame == [prefix |-> PrefixLen, L |-> 0, got |-> 0, text |-> EmptyStr, valid |-> TRUE]
BadUtf8Frame == [prefix |-> PrefixLen, L |-> 1, got |-> 1, text |-> EmptyStr, valid |-> FALSE]
ShortPrefix == {[prefix |-> k, L |-> 0, got |-> 0, text |-> EmptyStr, valid |-> TRUE] :
                k \in 0..(PrefixLen - 1)}
ShortPayload == {[prefix |-> PrefixLen, L |-> EncodedLen(p), got |-> g,
                  text |-> EmptyStr, valid |-> TRUE] :
                 p \in {Join(<<STR_1, STR_jp, STR_a>>)}, g \in {0, 5}}
StreamEvents == CompleteFrames \cup {ZeroFrame, BadUtf8Frame} \cup ShortPrefix \cup ShortPayload

\* ------------------------------------------------------------ read_request
\* reader.readexactly(n) with avail bytes before end of stream
ReadExactly(avail, n) == IF avail < n THEN "IncompleteReadError" ELSE "ok"

\* struct.unpack('I', lendata) returns a 1-tuple; Python's tuple == int is False
TupleEqInt(t, n) == FALSE

None == [tag |-> "None", val |-> EmptyStr, exc |-> "none"]
Str(t) == [tag |-> "str", val |-> t, exc |-> "none"]
Raise(x) == [tag |-> "raise", val |-> EmptyStr, exc |-> x]

\* a read_request that hands back the bytes it got instead of reader.readexactly
read_request_partial(e) ==
  IF ReadExactly(e.prefix, PrefixLen) # "ok" THEN None
  ELSE IF ~e.valid THEN Raise("UnicodeDecodeError")
  ELSE Str(e.text)

read_request(e) ==
  IF ReadExactly(e.prefix, PrefixLen) # "ok" THEN None
  ELSE LET length == <<e.L>> IN
       IF TupleEqInt(length, 0) THEN None
       ELSE IF ReadExactly(e.got, length[1]) # "ok" THEN None
       ELSE IF ~e.valid THEN Raise("UnicodeDecodeError")
       ELSE Str(e.text)

\* ----------------------------------------------------------- Geo Resolver
\* What the database answers to one query: rows, or an error.
DbCodes == {STR_jp, STR_hk}
DbOutcomes == {[kind |-> "rows", rows |-> <<>>], [kind |-> "raise", rows |-> <<>>]}
              \cup {[kind |-> "rows", rows |-> <<code>>] : code \in DbCodes}

\* a psql getCountry that lets the query's exception propagate
Backend_getCountry_propagate(be, o) ==
  IF o.kind = "raise" THEN Raise("DatabaseError")
  ELSE IF Len(o.rows) = 0 THEN Str(EmptyStr) ELSE Str(o.rows[1])

\* Coord2Country_psql.getCountry / Coord2Country_sqlite.getCountry
Backend_getCountry(be, o) ==
  IF o.kind = "raise"
  THEN IF be = "psql" THEN Raise("SystemExit") ELSE Raise("DatabaseError")
  ELSE IF Len(o.rows) = 0 THEN Str(EmptyStr) ELSE Str(o.rows[1])

\* Coord2Country.getCountry: does it reach the backend?
QueriesBackend(lon, lat) == ~(lat = EmptyStr /\ lon = EmptyStr)

Coord2Country_getCountry(be, lon, lat, o) ==
  IF ~QueriesBackend(lon, lat) THEN Str(EmptyStr) ELSE Backend_getCountry(be, o)

\* --------------------------------------------------------- handle_connection
\* a resolver that lets the script of the name override the supplied code
DirectCountry_classified(fields) ==
  IF contains_thai(fields[3]) THEN STR_th ELSE fields[2]

\* id/cc/string: the supplied country code
DirectCountry(fields) == fields[2]

\* a resolver that does not look at co2c.ready
NeedsGeo_unguarded(rdy, nm) == contains_cjk(nm)

\* id/lon/lat/string: is co2c.getCountry called?
NeedsGeo(rdy, nm) == rdy /\ contains_cjk(nm)

\* id/lon/lat/string without a lookup
LocalCountry(rdy, nm) ==
  IF rdy THEN IF contains_thai(nm) THEN STR_th ELSE EmptyStr ELSE EmptyStr

\* a dispatcher whose Cantonese test is  country == 'hk'
Dispatch_hk_only(country) ==
  IF country = STR_jp THEN "japanese"
  ELSE IF country = STR_th THEN "thai"
  ELSE IF country = STR_hk THEN "cantonese"
  ELSE "generic"

\* transcriptor.transcript: the strategy a country code selects
Dispatch(country) ==
  IF country = STR_jp THEN "japanese"
  ELSE IF country = STR_th THEN "thai"
  ELSE IF country \in {STR_mo, STR_hk} THEN "cantonese"
  ELSE "generic"

\* a handler that calls tc.transcript whatever the name
CallsTranscript_always(nm) == TRUE

\* if name != '': reply = tc.transcript(cc,name) else: reply = ''
CallsTranscript(nm) == nm # EmptyStr

\* What a strategy can hand back: text, None (thai_transcript and
\* cantonese_transcript catch their engine's error), or an exception.
EngineOutcomes(strat) ==
  IF strat \in {"thai", "cantonese"} THEN {"text", "None", "raise"}
  ELSE {"text", "raise"}

\* send_reply up to its await: the frame handed to writer.write
ReplyFrame(text) == [len |-> EncodedLen(text), text |-> text]

\* --------------------------------------------------- Coord2Country.__init__
\* What the constructor finds: the psql server is reachable or not; the
\* SQLITE file is usable, missing, or there but not loadable (sqlite3.connect
\* or load_extension("mod_spatialite") raises).
StartupEnvs(dbcon) ==
  IF dbcon THEN {"ok", "unreachable"} ELSE {"ok", "missing", "unopenable"}

\* Coord2Country_psql.__init__: psycopg2.connect inside try/except
Coord2Country_psql_init(env) ==
  IF env = "unreachable" THEN [ready |-> FALSE, raised |-> FALSE]
  ELSE [ready |-> TRUE, raised |-> FALSE]

\* Coord2Country_sqlite.__init__: only os.path.isfile guards the fallback;
\* connect, enable_load_extension and load_extension are outside any try
Coord2Country_sqlite_init(env) ==
  IF env = "missing" THEN [ready |-> FALSE, raised |-> FALSE]
  ELSE IF env = "unopenable" THEN [ready |-> FALSE, raised |-> TRUE]
  ELSE [ready |-> TRUE, raised |-> FALSE]

\* Coord2Country.__init__ ; co2c = Coord2Country() at module level
Coord2Country_init(dbcon, env) ==
  IF dbcon THEN Coord2Country_psql_init(env) ELSE Coord2Country_sqlite_init(env)

\* the state of the pure-function specifications while the server runs
NoPure == [fn |-> "none", inp |-> <<>>, eng |-> <<>>, wire |-> <<>>,
           res |-> [tag |-> "None", val |-> <<>>, exc |-> "none"], done |-> FALSE]

\* a getCountry whose query awaits its result
AfterExecute_await(c) == NoConn

\* Coord2Country_psql.getCountry: cur.execute and cur.fetchall are blocking
\* calls with no await between them, so the event loop keeps running c
AfterExecute(c) == c

VARIABLES
  geoEnv,    \* what Coord2Country() found at startup
  pure,      \* input and result of a pure function under test
  ready,     \* co2c.ready
  backend,   \* "psql" (args.dbcon given) or "sqlite"
  alive,     \* the process has not exited
  running,   \* the handler the event loop is running, NoConn when all are suspended
  pc,        \* position of each handler
  ev,        \* what the read_request of this iteration consumed
  data,      \* data
  qs,        \* qs
  cc,        \* cc
  geoCall,   \* the arguments of the co2c.getCountry call of this request
  dbQuery,   \* whether the backend executed a query for this request
  strategy,  \* the strategy tc.transcript invoked for this request
  result,    \* what tc.transcript handed back
  reply,     \* the text the handler is about to send
  out,       \* the frames handed to writer.write since the last read_request
  nRead,     \* the number of requests read_request returned
  nWritten,  \* the number of frames handed to writer.write
  exc        \* the exception that ended the handler

vars == <<geoEnv, pure, ready, backend, alive, running, pc, ev, data, qs, cc, geoCall, dbQuery,
          strategy, result, reply, out, nRead, nWritten, exc>>

locals == <<ev, data, qs, cc, geoCall, dbQuery, strategy, result, reply>>

\* the parsed name of the request at hand
Name(c) == qs[c][Len(qs[c])]

Init ==
  /\ \E dbcon \in BOOLEAN :
       \E env \in StartupEnvs(dbcon) :
         /\ backend = IF dbcon THEN "psql" ELSE "sqlite"
         /\ geoEnv = env
         /\ ready = Coord2Country_init(dbcon, env).ready
         /\ alive = ~Coord2Country_init(dbcon, env).raised
  /\ pure = NoPure
  /\ running = NoConn
  /\ pc = [c \in Conns |-> "idle"]
  /\ ev = [c \in Conns |-> <<>>]
  /\ data = [c \in Conns |-> EmptyStr]
  /\ qs = [c \in Conns |-> <<>>]
  /\ cc = [c \in Conns |-> EmptyStr]
  /\ geoCall = [c \in Conns |-> <<>>]
  /\ dbQuery = [c \in Conns |-> FALSE]
  /\ strategy = [c \in Conns |-> "none"]
  /\ result = [c \in Conns |-> "none"]
  /\ reply = [c \in Conns |-> EmptyStr]
  /\ out = [c \in Conns |-> <<>>]
  /\ nRead = [c \in Conns |-> 0]
  /\ nWritten = [c \in Conns |-> 0]
  /\ exc = [c \in Conns |-> "none"]

\* the locals of one loop iteration, dead once the handler suspends or ends
ResetLocals(c) ==
  /\ ev' = [ev EXCEPT ![c] = <<>>]
  /\ data' = [data EXCEPT ![c] = EmptyStr]
  /\ qs' = [qs EXCEPT ![c] = <<>>]
  /\ cc' = [cc EXCEPT ![c] = EmptyStr]
  /\ geoCall' = [geoCall EXCEPT ![c] = <<>>]
  /\ dbQuery' = [dbQuery EXCEPT ![c] = FALSE]
  /\ strategy' = [strategy EXCEPT ![c] = "none"]
  /\ result' = [result EXCEPT ![c] = "none"]
  /\ reply' = [reply EXCEPT ![c] = EmptyStr]

\* writer.write(struct.pack('I', length) + data)
Write(c, text) ==
  /\ out' = [out EXCEPT ![c] = Append(@, ReplyFrame(text))]
  /\ nWritten' = [nWritten EXCEPT ![c] = @ + 1]

\* asyncio.start_server calls handle_connection, which runs to its first await
Accept(c) ==
  /\ alive /\ running = NoConn /\ pc[c] = "idle"
  /\ pc' = [pc EXCEPT ![c] = "await_read"]
  /\ UNCHANGED <<geoEnv, pure, ready, backend, alive, running, locals, out, nRead, nWritten, exc>>

\* data = await read_request(reader)
ReadRequest(c) ==
  /\ alive /\ running = NoConn /\ pc[c] = "await_read"
  /\ \E e \in StreamEvents :
       LET r == read_request(e) IN
       /\ r.tag = "str" => nRead[c] < MaxRequests
       /\ ev' = [ev EXCEPT ![c] = <<e>>]
       /\ data' = [data EXCEPT ![c] = r.val]
       /\ exc' = [exc EXCEPT ![c] = r.exc]
       /\ pc' = [pc EXCEPT ![c] = CASE r.tag = "None" -> "return"
                                    [] r.tag = "raise" -> "raise"
                                    [] r.tag = "str" -> "parse"]
       /\ nRead' = [nRead EXCEPT ![c] = IF r.tag = "str" THEN @ + 1 ELSE @]
  /\ running' = c
  /\ out' = [out EXCEPT ![c] = <<>>]
  /\ UNCHANGED <<geoEnv, pure, ready, backend, alive, qs, cc, geoCall, dbQuery, strategy, result,
                 reply, nWritten>>

\* if data is None: return
Return(c) ==
  /\ alive /\ running = c /\ pc[c] = "return"
  /\ pc' = [pc EXCEPT ![c] = "closed"]
  /\ running' = NoConn
  /\ ResetLocals(c)
  /\ UNCHANGED <<geoEnv, pure, ready, backend, alive, out, nRead, nWritten, exc>>

\* an exception leaves handle_connection; SystemExit (the sys.exit(1) of the
\* psql backend) leaves the event loop too and ends the process
Unwind(c) ==
  /\ alive /\ running = c /\ pc[c] = "raise"
  /\ pc' = [pc EXCEPT ![c] = "crashed"]
  /\ alive' = (exc[c] # "SystemExit")
  /\ running' = NoConn
  /\ ResetLocals(c)
  /\ UNCHANGED <<geoEnv, pure, ready, backend, out, nRead, nWritten, exc>>

\* qs = data.split('/',3) and the unpacking of qs
Parse(c) ==
  /\ alive /\ running = c /\ pc[c] = "parse"
  /\ LET fields == Split(data[c], SLASH, MaxSplit) IN
     /\ qs' = [qs EXCEPT ![c] = fields]
     /\ IF Len(fields) = 3
        THEN /\ cc' = [cc EXCEPT ![c] = DirectCountry(fields)]
             /\ pc' = [pc EXCEPT ![c] = "try"]
             /\ UNCHANGED exc
        ELSE IF Len(fields) = 4
        THEN /\ pc' = [pc EXCEPT ![c] = "resolve"]
             /\ UNCHANGED <<cc, exc>>
        ELSE \* (id,lon,lat,name) = qs raises ValueError, outside the try
             /\ pc' = [pc EXCEPT ![c] = "raise"]
             /\ exc' = [exc EXCEPT ![c] = "ValueError"]
             /\ UNCHANGED cc
  /\ UNCHANGED <<geoEnv, pure, ready, backend, alive, running, ev, data, geoCall, dbQuery, strategy,
                 result, reply, out, nRead, nWritten>>

\* the branches of "if co2c.ready" that set cc without a lookup
ResolveLocal(c) ==
  /\ alive /\ running = c /\ pc[c] = "resolve"
  /\ ~NeedsGeo(ready, Name(c))
  /\ cc' = [cc EXCEPT ![c] = LocalCountry(ready, Name(c))]
  /\ pc' = [pc EXCEPT ![c] = "try"]
  /\ UNCHANGED <<geoEnv, pure, ready, backend, alive, running, ev, data, qs, geoCall, dbQuery,
                 strategy, result, reply, out, nRead, nWritten, exc>>

\* cc = co2c.getCountry(lon,lat), outside the try: Coord2Country.getCountry
\* answers '' itself when both coordinates are empty, else the backend issues
\* cur.execute
ResolveGeo(c) ==
  /\ alive /\ running = c /\ pc[c] = "resolve"
  /\ NeedsGeo(ready, Name(c))
  /\ LET lon == qs[c][2]
         lat == qs[c][3]
     IN
     /\ geoCall' = [geoCall EXCEPT ![c] = << <<lon, lat>> >>]
     /\ dbQuery' = [dbQuery EXCEPT ![c] = QueriesBackend(lon, lat)]
     /\ IF QueriesBackend(lon, lat)
        THEN /\ pc' = [pc EXCEPT ![c] = "query"]
             /\ running' = AfterExecute(c)
             /\ UNCHANGED cc
        ELSE /\ cc' = [cc EXCEPT ![c] =
                  Coord2Country_getCountry(backend, lon, lat, [kind |-> "rows", rows |-> <<>>]).val]
             /\ pc' = [pc EXCEPT ![c] = "try"]
             /\ UNCHANGED running
  /\ UNCHANGED <<geoEnv, pure, ready, backend, alive, ev, data, qs, strategy, result,
                 reply, out, nRead, nWritten, exc>>

\* rows = self.cur.fetchall() and the return of getCountry, or its exception
FetchRows(c) ==
  /\ alive /\ running = c /\ pc[c] = "query"
  /\ \E o \in DbOutcomes :
       LET r == Coord2Country_getCountry(backend, qs[c][2], qs[c][3], o) IN
       /\ cc' = [cc EXCEPT ![c] = r.val]
       /\ exc' = [exc EXCEPT ![c] = r.exc]
       /\ pc' = [pc EXCEPT ![c] = IF r.tag = "str" THEN "try" ELSE "raise"]
  /\ UNCHANGED <<geoEnv, pure, ready, backend, alive, running, ev, data, qs, geoCall,
                 dbQuery, strategy, result, reply, out, nRead, nWritten>>

\* the try block up to its send_reply: reply = tc.transcript(cc,name) or '',
\* and '' in place of a reply that is no str
Transcribe(c) ==
  /\ alive /\ running = c /\ pc[c] = "try"
  /\ IF CallsTranscript(Name(c))
     THEN \E t \in EngineOutcomes(Dispatch(cc[c])) :
            /\ strategy' = [strategy EXCEPT ![c] = Dispatch(cc[c])]
            /\ result' = [result EXCEPT ![c] = t]
            /\ reply' = [reply EXCEPT ![c] = IF t = "text" THEN STR_A ELSE EmptyStr]
            /\ pc' = [pc EXCEPT ![c] = IF t = "raise" THEN "except" ELSE "send"]
     ELSE /\ result' = [result EXCEPT ![c] = "empty"]
          /\ reply' = [reply EXCEPT ![c] = EmptyStr]
          /\ pc' = [pc EXCEPT ![c] = "send"]
          /\ UNCHANGED strategy
  /\ UNCHANGED <<geoEnv, pure, ready, backend, alive, running, ev, data, qs, cc, geoCall, dbQuery,
                 out, nRead, nWritten, exc>>

\* send_reply(writer, reply) of the try block, up to await writer.drain()
Send(c) ==
  /\ alive /\ running = c /\ pc[c] = "send"
  /\ Write(c, reply[c])
  /\ pc' = [pc EXCEPT ![c] = "await_drain"]
  /\ running' = NoConn
  /\ ResetLocals(c)
  /\ UNCHANGED <<geoEnv, pure, ready, backend, alive, nRead, exc>>

\* except BaseException: send_reply(writer, ''), up to await writer.drain()
SendExc(c) ==
  /\ alive /\ running = c /\ pc[c] = "except"
  /\ Write(c, EmptyStr)
  /\ pc' = [pc EXCEPT ![c] = "await_drain_exc"]
  /\ running' = NoConn
  /\ ResetLocals(c)
  /\ UNCHANGED <<geoEnv, pure, ready, backend, alive, nRead, exc>>

\* await writer.drain() inside the try: it returns and the loop starts over,
\* or it raises and the except block calls send_reply(writer, '')
Drain(c) ==
  /\ alive /\ running = NoConn /\ pc[c] = "await_drain"
  /\ \E ok \in BOOLEAN :
       IF ok
       THEN /\ pc' = [pc EXCEPT ![c] = "await_read"]
            /\ UNCHANGED <<out, nWritten>>
       ELSE /\ Write(c, EmptyStr)
            /\ pc' = [pc EXCEPT ![c] = "await_drain_exc"]
  /\ UNCHANGED <<geoEnv, pure, ready, backend, alive, running, locals, nRead, exc>>

\* await writer.drain() inside the except block: it returns and the loop
\* starts over, or it raises and the exception leaves the handler
DrainExc(c) ==
  /\ alive /\ running = NoConn /\ pc[c] = "await_drain_exc"
  /\ \E ok \in BOOLEAN :
       IF ok
       THEN /\ pc' = [pc EXCEPT ![c] = "await_read"]
            /\ UNCHANGED exc
       ELSE /\ pc' = [pc EXCEPT ![c] = "crashed"]
            /\ exc' = [exc EXCEPT ![c] = "ConnectionError"]
  /\ UNCHANGED <<geoEnv, pure, ready, backend, alive, running, locals, out, nRead, nWritten>>

Next ==
  \E c \in Conns :
    \/ Accept(c)
    \/ ReadRequest(c)
    \/ Return(c)
    \/ Unwind(c)
    \/ Parse(c)
    \/ ResolveLocal(c)
    \/ ResolveGeo(c)
    \/ FetchRows(c)
    \/ Transcribe(c)
    \/ Send(c)
    \/ SendExc(c)
    \/ Drain(c)
    \/ DrainExc(c)

Spec == Init /\ [][Next]_vars

\* ============================================================ framing bytes
\* Longest reply text of the framing specification.
MaxTextLen == 3

RECURSIVE TextsUpTo(_, _)
TextsUpTo(chars, n) ==
  IF n = 0 THEN {<<>>}
  ELSE LET shorter == TextsUpTo(chars, n - 1) IN
       shorter \cup {Append(t, ch) : t \in shorter, ch \in chars}

\* one code point per UTF-8 length: a, e-acute, THAI KO KAI, an emoji
FrameChars == {97, 233, THAI_LO + 1, 128512}

\* str.encode('utf-8') of one code point
Utf8Encode(cp) ==
  IF cp < 128 THEN <<cp>>
  ELSE IF cp < 2048 THEN <<192 + cp \div 64, 128 + (cp % 64)>>
  ELSE IF cp < 65536
       THEN <<224 + cp \div 4096, 128 + ((cp \div 64) % 64), 128 + (cp % 64)>>
  ELSE <<240 + cp \div 262144, 128 + ((cp \div 4096) % 64),
         128 + ((cp \div 64) % 64), 128 + (cp % 64)>>

RECURSIVE Utf8EncodeText(_)
Utf8EncodeText(t) ==
  IF t = <<>> THEN <<>> ELSE Utf8Encode(Head(t)) \o Utf8EncodeText(Tail(t))

\* the number of bytes the lead byte b announces, 0 if b is no lead byte
Utf8SeqLen(b) ==
  IF b < 128 THEN 1
  ELSE IF b >= 192 /\ b < 224 THEN 2
  ELSE IF b >= 224 /\ b < 240 THEN 3
  ELSE IF b >= 240 /\ b < 248 THEN 4
  ELSE 0

IsContinuation(b) == b >= 128 /\ b < 192

\* the code point of one well-formed sequence
Utf8CodePoint(q) ==
  IF Len(q) = 1 THEN q[1]
  ELSE IF Len(q) = 2 THEN (q[1] - 192) * 64 + (q[2] - 128)
  ELSE IF Len(q) = 3 THEN (q[1] - 224) * 4096 + (q[2] - 128) * 64 + (q[3] - 128)
  ELSE (q[1] - 240) * 262144 + (q[2] - 128) * 4096 + (q[3] - 128) * 64 + (q[4] - 128)

\* bytes.decode('utf-8'): the text, or valid = FALSE for UnicodeDecodeError
RECURSIVE Utf8Decode(_)
Utf8Decode(b) ==
  IF b = <<>> THEN [valid |-> TRUE, text |-> <<>>]
  ELSE LET n == Utf8SeqLen(b[1]) IN
       IF n = 0 \/ n > Len(b) \/ \E i \in 2..n : ~IsContinuation(b[i])
       THEN [valid |-> FALSE, text |-> <<>>]
       ELSE LET rest == Utf8Decode(SubSeq(b, n + 1, Len(b))) IN
            [valid |-> rest.valid,
             text |-> IF rest.valid THEN <<Utf8CodePoint(SubSeq(b, 1, n))>> \o rest.text
                      ELSE <<>>]

\* struct.pack('I', n) and struct.unpack('I', b)[0], native byte order of x86
Pack32(n) ==
  <<n % 256, (n \div 256) % 256, (n \div 65536) % 256, (n \div 16777216) % 256>>

Unpack32(b) == b[1] + 256 * b[2] + 65536 * b[3] + 16777216 * b[4]

Min(a, b) == IF a < b THEN a ELSE b

\* what read_request meets when the stream holds the bytes b and then ends
EventOfBytes(b) ==
  LET prefix == Min(Len(b), PrefixLen)
      L == IF prefix = PrefixLen THEN Unpack32(SubSeq(b, 1, PrefixLen)) ELSE 0
      got == Min(L, Len(b) - prefix)
      dec == Utf8Decode(SubSeq(b, PrefixLen + 1, PrefixLen + got))
  IN [prefix |-> prefix, L |-> L, got |-> got, text |-> dec.text, valid |-> dec.valid]

\* a send_reply whose length prefix counts characters, not bytes
send_reply_bytes_charlen(text) ==
  Pack32(Len(text)) \o Utf8EncodeText(text)

\* send_reply: the bytes handed to writer.write
send_reply_bytes(text) ==
  LET bytes == Utf8EncodeText(text)
      length == Len(bytes)
  IN Pack32(length) \o bytes

\* ------------------------------------------------- the process, not serving
\* The server state of the pure-function specifications: constructed, no
\* connection accepted.
ServerIdle ==
  /\ geoEnv = "ok" /\ backend = "sqlite" /\ ready = TRUE /\ alive = TRUE
  /\ running = NoConn
  /\ pc = [c \in Conns |-> "idle"]
  /\ ev = [c \in Conns |-> <<>>]
  /\ data = [c \in Conns |-> EmptyStr]
  /\ qs = [c \in Conns |-> <<>>]
  /\ cc = [c \in Conns |-> EmptyStr]
  /\ geoCall = [c \in Conns |-> <<>>]
  /\ dbQuery = [c \in Conns |-> FALSE]
  /\ strategy = [c \in Conns |-> "none"]
  /\ result = [c \in Conns |-> "none"]
  /\ reply = [c \in Conns |-> EmptyStr]
  /\ out = [c \in Conns |-> <<>>]
  /\ nRead = [c \in Conns |-> 0]
  /\ nWritten = [c \in Conns |-> 0]
  /\ exc = [c \in Conns |-> "none"]

server == <<geoEnv, ready, backend, alive, running, pc, ev, data, qs, cc, geoCall,
            dbQuery, strategy, result, reply, out, nRead, nWritten, exc>>

PureInput(fn, inp, eng) ==
  [fn |-> fn, inp |-> inp, eng |-> eng, wire |-> <<>>,
   res |-> [tag |-> "None", val |-> <<>>, exc |-> "none"], done |-> FALSE]

\* ------------------------------------------------------ SpecFraming (C14)
InitFraming ==
  /\ ServerIdle
  /\ \E t \in TextsUpTo(FrameChars, MaxTextLen) : pure = PureInput("frame", t, <<>>)

\* send_reply(writer, reply) on one side, read_request(reader) on the other
ApplyFraming ==
  /\ pure.fn = "frame" /\ ~pure.done
  /\ pure' = [pure EXCEPT !.wire = send_reply_bytes(pure.inp),
                          !.res = read_request(EventOfBytes(send_reply_bytes(pure.inp))),
                          !.done = TRUE]
  /\ UNCHANGED server

NextFraming == ApplyFraming

SpecFraming == InitFraming /\ [][NextFraming]_vars

\* C14: the frame of a reply of encoded length N is the 4-byte prefix of value
\* N followed by N bytes, and read_request decodes it back to the reply text,
\* the empty reply (N = 0) included.
C14_FramingRoundTrip ==
  (pure.fn = "frame" /\ pure.done) =>
    LET N == EncodedLen(pure.inp) IN
    /\ Len(pure.wire) = PrefixLen + N
    /\ Unpack32(SubSeq(pure.wire, 1, PrefixLen)) = N
    /\ EventOfBytes(pure.wire).L = N /\ EventOfBytes(pure.wire).got = N
    /\ pure.res.tag = "str" /\ pure.res.val = pure.inp

\* C14 witness: the empty reply and a reply of two multi-byte characters have
\* gone through the round trip (two states: the empty one is named here).
C14_Witness ==
  /\ pure.fn = "frame" /\ pure.done
  /\ pure.inp = <<>> /\ pure.wire = <<0, 0, 0, 0>> /\ pure.res.tag = "str"

\* ======================================================= script-run strategies
\* Longest name of the script specification.
MaxInputLen == 3

\* unicodedata.name(c).split(' ')[0] for the code points the model uses;
\* "NONE" stands for a code point without a name (unicodedata.name raises
\* ValueError), as the unassigned U+0E00.
Alphabet(cp) ==
  IF (cp >= 65 /\ cp <= 90) \/ (cp >= 97 /\ cp <= 122) THEN "LATIN"
  ELSE IF cp >= 48 /\ cp <= 57 THEN "DIGIT"
  ELSE IF cp = 32 THEN "SPACE"
  ELSE IF cp = SLASH THEN "SOLIDUS"
  ELSE IF (cp >= 3585 /\ cp <= 3642) \/ (cp >= 3647 /\ cp <= 3675) THEN "THAI"
  ELSE IF cp >= CJK_LO /\ cp <= CJK_HI THEN "CJK"
  ELSE "NONE"

\* a Latin letter, two Thai letters, a CJK ideograph, a nameless code point
ScriptChars == {97, THAI_LO + 1, THAI_LO + 2, CJK_LO + 1, THAI_LO}

ScriptInputs == TextsUpTo(ScriptChars, MaxInputLen)

ListOf(l) == [tag |-> "list", val |-> l, exc |-> "none"]

\* the for loop of split_by_alphabet over str[i..]
RECURSIVE SplitLoop(_, _, _, _, _)
SplitLoop(str, i, oldalphabet, target, strlist) ==
  IF i > Len(str) THEN Append(strlist, target)
  ELSE LET alphabet == Alphabet(str[i]) IN
       IF alphabet = oldalphabet
       THEN SplitLoop(str, i + 1, alphabet, Append(target, str[i]), strlist)
       ELSE SplitLoop(str, i + 1, alphabet, <<str[i]>>, Append(strlist, target))

\* the loop without its last line: oldalphabet stays the first one's alphabet
RECURSIVE SplitLoopFirst(_, _, _, _, _)
SplitLoopFirst(str, i, oldalphabet, target, strlist) ==
  IF i > Len(str) THEN Append(strlist, target)
  ELSE IF Alphabet(str[i]) = oldalphabet
       THEN SplitLoopFirst(str, i + 1, oldalphabet, Append(target, str[i]), strlist)
       ELSE SplitLoopFirst(str, i + 1, oldalphabet, <<str[i]>>, Append(strlist, target))

split_by_alphabet_first(str) ==
  IF str = <<>> THEN Raise("IndexError")
  ELSE IF \E i \in 1..Len(str) : Alphabet(str[i]) = "NONE" THEN Raise("ValueError")
  ELSE ListOf(SplitLoopFirst(str, 2, Alphabet(str[1]), <<str[1]>>, <<>>))

\* split_by_alphabet(str): the list of runs, IndexError on '' (str[0]),
\* ValueError on a code point without a name
split_by_alphabet(str) ==
  IF str = <<>> THEN Raise("IndexError")
  ELSE IF \E i \in 1..Len(str) : Alphabet(str[i]) = "NONE" THEN Raise("ValueError")
  ELSE ListOf(SplitLoop(str, 2, Alphabet(str[1]), <<str[1]>>, <<>>))

\* str.rstrip(chars): trailing code points of the set chars removed
RECURSIVE RStripChars(_, _)
RStripChars(t, chars) ==
  IF t # <<>> /\ t[Len(t)] \in chars THEN RStripChars(SubSeq(t, 1, Len(t) - 1), chars)
  ELSE t

RECURSIVE LStripChars(_, _)
LStripChars(t, chars) ==
  IF t # <<>> /\ t[1] \in chars THEN LStripChars(Tail(t), chars) ELSE t

\* the code points below U+0100 that str.strip() and str.rstrip() remove
Whitespace == {9, 10, 11, 12, 13, 28, 29, 30, 31, 32, 133, 160}

\* str.strip()
Strip(t) == LStripChars(RStripChars(t, Whitespace), Whitespace)

\* '<s/>' as rstrip takes it: the set of its characters
MarkerChars == {60, 115, SLASH, 62}

\* the engines: what one call on one run does
NotCalled == [called |-> FALSE, fail |-> FALSE, text |-> <<>>]
EngineFails == [called |-> TRUE, fail |-> TRUE, text |-> <<>>]
EngineGives(t) == [called |-> TRUE, fail |-> FALSE, text |-> t]

\* tltk.nlp.th2roman: "m <s/>", "ms<s/>", or an exception
ThaiEngine == {EngineGives(<<109, 32, 60, 115, 47, 62>>),
               EngineGives(<<109, 115, 60, 115, 47, 62>>), EngineFails}

\* pinyin_jyutping_sentence.jyutping: "z1", or an exception
CantoneseEngine == {EngineGives(<<122, 49>>), EngineFails}

\* one engine outcome for every run of inp of the given alphabet
EngineRuns(inp, alphabet, engine) ==
  LET r == split_by_alphabet(inp) IN
  IF r.tag # "list" THEN {<<>>}
  ELSE {f \in [1..Len(r.val) -> engine \cup {NotCalled}] :
          \A i \in 1..Len(r.val) :
            f[i].called <=> (Alphabet(r.val[i][1]) = alphabet)}

\* the for loop of thai_transcript over stlist[i..]
RECURSIVE ThaiLoop(_, _, _, _)
ThaiLoop(stlist, eng, i, latin) ==
  IF i > Len(stlist) THEN Str(latin)
  ELSE LET st == stlist[i] IN
       IF Alphabet(st[1]) = "THAI"
       THEN IF eng[i].fail THEN None
            ELSE ThaiLoop(stlist, eng, i + 1,
                          latin \o RStripChars(RStripChars(eng[i].text, MarkerChars),
                                               Whitespace))
       ELSE ThaiLoop(stlist, eng, i + 1, latin \o st)

\* a Thai loop that skips the run its engine failed on
RECURSIVE ThaiLoopSkip(_, _, _, _)
ThaiLoopSkip(stlist, eng, i, latin) ==
  IF i > Len(stlist) THEN Str(latin)
  ELSE LET st == stlist[i] IN
       IF Alphabet(st[1]) = "THAI"
       THEN IF eng[i].fail THEN ThaiLoopSkip(stlist, eng, i + 1, latin)
            ELSE ThaiLoopSkip(stlist, eng, i + 1,
                              latin \o RStripChars(RStripChars(eng[i].text, MarkerChars),
                                                   Whitespace))
       ELSE ThaiLoopSkip(stlist, eng, i + 1, latin \o st)

thai_transcript_partial(inpstr, eng) ==
  LET stlist == split_by_alphabet(inpstr) IN
  IF stlist.tag # "list" THEN stlist ELSE ThaiLoopSkip(stlist.val, eng, 1, <<>>)

\* thai_transcript(inpstr), eng[i] being what th2roman does on run i
thai_transcript(inpstr, eng) ==
  LET stlist == split_by_alphabet(inpstr) IN
  IF stlist.tag # "list" THEN stlist ELSE ThaiLoop(stlist.val, eng, 1, <<>>)

\* the for loop of cantonese_transcript over stlist[i..]
RECURSIVE CantoneseLoop(_, _, _, _)
CantoneseLoop(stlist, eng, i, latin) ==
  IF i > Len(stlist) THEN Str(latin)
  ELSE LET st == stlist[i] IN
       IF Alphabet(st[1]) = "CJK"
       THEN IF eng[i].fail THEN None
            ELSE CantoneseLoop(stlist, eng, i + 1, latin \o eng[i].text)
       ELSE CantoneseLoop(stlist, eng, i + 1, latin \o st)

\* cantonese_transcript(inpstr), eng[i] being what jyutping does on run i
cantonese_transcript(inpstr, eng) ==
  LET stlist == split_by_alphabet(inpstr) IN
  IF stlist.tag # "list" THEN stlist ELSE CantoneseLoop(stlist.val, eng, 1, <<>>)

\* what the try block of handle_connection sends for the value r of
\* tc.transcript: the text, '' for a non-string, '' from the except block
HandlerSends(r) == IF r.tag = "str" THEN r.val ELSE EmptyStr

\* ------------------------------------------------------------- SpecScripts
InitScripts ==
  /\ ServerIdle
  /\ \E inp \in ScriptInputs :
       \/ pure = PureInput("split", inp, <<>>)
       \/ \E eng \in EngineRuns(inp, "THAI", ThaiEngine) :
            pure = PureInput("thai", inp, eng)
       \/ \E eng \in EngineRuns(inp, "CJK", CantoneseEngine) :
            pure = PureInput("cantonese", inp, eng)

ApplySplit ==
  /\ pure.fn = "split" /\ ~pure.done
  /\ pure' = [pure EXCEPT !.res = split_by_alphabet(pure.inp), !.done = TRUE]
  /\ UNCHANGED server

ApplyThai ==
  /\ pure.fn = "thai" /\ ~pure.done
  /\ pure' = [pure EXCEPT !.res = thai_transcript(pure.inp, pure.eng),
                          !.wire = send_reply_bytes(
                                     HandlerSends(thai_transcript(pure.inp, pure.eng))),
                          !.done = TRUE]
  /\ UNCHANGED server

ApplyCantonese ==
  /\ pure.fn = "cantonese" /\ ~pure.done
  /\ pure' = [pure EXCEPT !.res = cantonese_transcript(pure.inp, pure.eng),
                          !.wire = send_reply_bytes(
                                     HandlerSends(cantonese_transcript(pure.inp, pure.eng))),
                          !.done = TRUE]
  /\ UNCHANGED server

NextScripts == ApplySplit \/ ApplyThai \/ ApplyCantonese

SpecScripts == InitScripts /\ [][NextScripts]_vars

\* ---- helpers of the claims on SpecScripts
RECURSIVE Concat(_)
Concat(l) == IF l = <<>> THEN <<>> ELSE Head(l) \o Concat(Tail(l))

Homogeneous(run) == \A i \in 1..Len(run) : Alphabet(run[i]) = Alphabet(run[1])

AllNamed(t) == \A i \in 1..Len(t) : Alphabet(t[i]) # "NONE"

SomeEngineFailed == \E i \in 1..Len(pure.eng) : pure.eng[i].fail

EndsWith(t, suffix) ==
  Len(t) >= Len(suffix) /\ SubSeq(t, Len(t) - Len(suffix) + 1, Len(t)) = suffix

MarkerToken == <<60, 115, SLASH, 62>>

\* the engine's output without the trailing token '<s/>' and without the
\* whitespace around what is left
WithoutMarker(t) ==
  LET u == Strip(t) IN
  Strip(IF EndsWith(u, MarkerToken) THEN SubSeq(u, 1, Len(u) - Len(MarkerToken)) ELSE u)

\* C16: when the engine fails on a run, thai_transcript and cantonese_transcript
\* return None, whatever the earlier runs gave, and the handler sends the empty
\* reply; when it fails on none, they return text.
C16_AllOrNothing ==
  (pure.fn \in {"thai", "cantonese"} /\ pure.done /\ pure.res.tag # "raise") =>
    /\ SomeEngineFailed =>
         /\ pure.res = None
         /\ HandlerSends(pure.res) = EmptyStr
         /\ pure.wire = <<0, 0, 0, 0>>
    /\ ~SomeEngineFailed => pure.res.tag = "str"

\* C16 witness: the first Thai run was transcribed, the engine failed on a
\* later one, and the call gave None.
C16_Witness ==
  /\ pure.fn = "thai" /\ pure.done /\ Len(pure.eng) = 3
  /\ pure.eng[1].called /\ ~pure.eng[1].fail
  /\ pure.eng[3].fail
  /\ pure.res = None

\* C17: for a non-empty input whose code points all have an alphabet, the runs
\* concatenate to the input, each run is non-empty and of one alphabet, and
\* adjacent runs are of different alphabets.
C17_RunsPartitionInput ==
  (pure.fn = "split" /\ pure.done /\ pure.inp # <<>> /\ AllNamed(pure.inp)) =>
    /\ pure.res.tag = "list"
    /\ Concat(pure.res.val) = pure.inp
    /\ \A i \in 1..Len(pure.res.val) :
         pure.res.val[i] # <<>> /\ Homogeneous(pure.res.val[i])
    /\ \A i \in 1..(Len(pure.res.val) - 1) :
         Alphabet(pure.res.val[i][1]) # Alphabet(pure.res.val[i + 1][1])

\* C17 witness: an input of three runs, the first alphabet coming back in the
\* third, has been split.
C17_Witness ==
  /\ pure.fn = "split" /\ pure.done
  /\ pure.inp = <<THAI_LO + 1, 97, THAI_LO + 2>>
  /\ pure.res.tag = "list" /\ Len(pure.res.val) = 3

\* C18: the Thai strategy's text is the concatenation, in order, of the non-Thai
\* runs unchanged and, for each Thai run, the engine's output without the
\* trailing marker token and surrounding whitespace, nothing else removed.
C18_ThaiRunStripsMarkerOnly ==
  (pure.fn = "thai" /\ pure.done /\ pure.res.tag = "str") =>
    LET stlist == split_by_alphabet(pure.inp).val IN
    pure.res.val =
      Concat([i \in 1..Len(stlist) |->
                IF pure.eng[i].called THEN WithoutMarker(pure.eng[i].text)
                ELSE stlist[i]])

\* ========================================================= Japanese strategy
\* Most fragments the converter returns, and the longest fragment.
MaxFrags == 2
MaxFragLen == 2

\* a lower-case letter, an upper-case letter, a blank
FragChars == {97, 66, 32}

Fragments == TextsUpTo(FragChars, MaxFragLen)

RECURSIVE ListsUpTo(_, _)
ListsUpTo(elems, n) ==
  IF n = 0 THEN {<<>>}
  ELSE LET shorter == ListsUpTo(elems, n - 1) IN
       shorter \cup {Append(l, e) : l \in shorter, e \in elems}

\* str.upper() and str.lower() of one code point, on ASCII
Upper(cp) == IF cp >= 97 /\ cp <= 122 THEN cp - 32 ELSE cp
Lower(cp) == IF cp >= 65 /\ cp <= 90 THEN cp + 32 ELSE cp

\* str.capitalize(): first character upper-cased, the rest lower-cased
capitalize(t) ==
  IF t = <<>> THEN <<>>
  ELSE <<Upper(t[1])>> \o [i \in 1..(Len(t) - 1) |-> Lower(t[i + 1])]

\* the for loop of the 'jp' branch over kanji[i..]
RECURSIVE JapaneseLoop(_, _, _)
JapaneseLoop(kanji, i, acc) ==
  IF i > Len(kanji) THEN acc
  ELSE LET hepburn == Strip(kanji[i]) IN
       IF Len(hepburn) > 0
       THEN JapaneseLoop(kanji, i + 1, acc \o capitalize(hepburn) \o <<32>>)
       ELSE JapaneseLoop(kanji, i + 1, acc)

\* transcript('jp', unistr), kanji being the hepburn fields of
\* kakasi.convert(unistr)
japanese_transcript(kanji) == Str(Strip(JapaneseLoop(kanji, 1, <<>>)))

\* ------------------------------------------------------------ SpecJapanese
InitJapanese ==
  /\ ServerIdle
  /\ \E kanji \in ListsUpTo(Fragments, MaxFrags) : pure = PureInput("japanese", kanji, <<>>)

ApplyJapanese ==
  /\ pure.fn = "japanese" /\ ~pure.done
  /\ pure' = [pure EXCEPT !.res = japanese_transcript(pure.inp), !.done = TRUE]
  /\ UNCHANGED server

NextJapanese == ApplyJapanese

SpecJapanese == InitJapanese /\ [][NextJapanese]_vars

\* ---- helpers of the claim on SpecJapanese
\* the fragments trimmed, the empty ones dropped
RECURSIVE TrimmedNonEmpty(_)
TrimmedNonEmpty(l) ==
  IF l = <<>> THEN <<>>
  ELSE IF Strip(Head(l)) = <<>> THEN TrimmedNonEmpty(Tail(l))
  ELSE <<Strip(Head(l))>> \o TrimmedNonEmpty(Tail(l))

RECURSIVE JoinBlank(_)
JoinBlank(l) ==
  IF l = <<>> THEN <<>>
  ELSE IF Len(l) = 1 THEN l[1]
  ELSE l[1] \o <<32>> \o JoinBlank(Tail(l))

\* C20: the Japanese strategy returns text: the fragments trimmed, the empty
\* ones dropped, the first letter of each upper-cased and the rest of it
\* unchanged, joined by single blanks.
C20_JapaneseFirstLetterOnly ==
  (pure.fn = "japanese" /\ pure.done) =>
    /\ pure.res.tag = "str"
    /\ pure.res.val =
         JoinBlank([i \in 1..Len(TrimmedNonEmpty(pure.inp)) |->
                      <<Upper(TrimmedNonEmpty(pure.inp)[i][1])>>
                        \o Tail(TrimmedNonEmpty(pure.inp)[i])])

\* ================================================================= claims
\* the Unicode blocks the claims speak of, end points included
contains_cjk_block(text) ==
  \E i \in 1..Len(text) : text[i] >= CJK_LO /\ text[i] <= CJK_HI

contains_thai_block(text) ==
  \E i \in 1..Len(text) : text[i] >= THAI_LO /\ text[i] <= THAI_HI

\* the peer closed the stream before the frame was complete
Incomplete(e) == e.prefix < PrefixLen \/ e.got < e.L

\* positions of a handler after the country of its request is resolved
Resolved == {"try", "send", "except"}

\* nothing of the handlers other than c changes
OthersUntouched(c) ==
  \A d \in Conns \ {c} :
    /\ pc'[d] = pc[d] /\ out'[d] = out[d] /\ exc'[d] = exc[d]
    /\ nRead'[d] = nRead[d] /\ nWritten'[d] = nWritten[d]

\* C1: a request whose non-empty payload splits into 1 or 2 fields is on its
\* way to one empty-string reply, and no exception ends the handler.
C1_MalformedGetsEmptyReply ==
  \A c \in Conns :
    (Len(qs[c]) \in {1, 2} /\ ev[c][1].L > 0) =>
      (pc[c] \in {"send", "except"} /\ reply[c] = EmptyStr /\ exc[c] = "none")

\* C2: for a well-formed request a failure of the resolution or of the
\* transcription becomes an empty-string reply; no exception but the
\* process-fatal one of the networked backend leaves the handler.
C2_ProcessingFailureIsIsolated ==
  \A c \in Conns :
    Len(qs[c]) \in {3, 4} =>
      /\ pc[c] = "raise" => exc[c] = "SystemExit"
      /\ result[c] \in {"None", "raise"} => (pc[c] \in {"send", "except"} /\ reply[c] = EmptyStr)

\* C3: requests and replies alternate: never more reply frames written than
\* requests read, never more than one reply outstanding, and none outstanding
\* when the next request is awaited.
C3_StrictAlternation ==
  \A c \in Conns :
    /\ nWritten[c] <= nRead[c]
    /\ nRead[c] - nWritten[c] <= 1
    /\ pc[c] = "await_read" => nWritten[c] = nRead[c]
    /\ Len(out[c]) <= 1

\* C4: a length prefix of 0 makes read_request report the end of the
\* connection: the handler returns, parses nothing and raises nothing.
C4_ZeroLengthEndsConnection ==
  \A c \in Conns :
    (ev[c] # <<>> /\ ev[c][1].prefix = PrefixLen /\ ev[c][1].L = 0) =>
      (pc[c] = "return" /\ qs[c] = <<>> /\ exc[c] = "none")

\* C5: when the peer closes before a frame is complete (no byte, a partial
\* prefix, or fewer than L payload bytes) the handler returns and stays closed:
\* it writes no frame, raises nothing, and no other handler changes.
C5_IncompleteFrameClosesCleanly ==
  [][\A c \in Conns :
       /\ (pc[c] = "await_read" /\ pc'[c] # "await_read" /\ Incomplete(ev'[c][1])) =>
            /\ pc'[c] = "return" /\ exc'[c] = "none"
            /\ nWritten'[c] = nWritten[c] /\ nRead'[c] = nRead[c]
            /\ OthersUntouched(c)
       /\ (pc[c] = "return" /\ pc'[c] # "return") =>
            /\ pc'[c] = "closed" /\ exc'[c] = "none"
            /\ nWritten'[c] = nWritten[c] /\ out'[c] = <<>>
            /\ OthersUntouched(c)
       /\ pc[c] = "closed" => (pc'[c] = "closed" /\ nWritten'[c] = nWritten[c])
    ]_vars

\* C5 witness: a handler that has answered one request returns on a payload
\* cut short while another handler is waiting for its drain.
C5_Witness ==
  \E c \in Conns, d \in Conns :
    /\ c # d /\ pc[c] = "return" /\ nRead[c] = 1 /\ nWritten[c] = 1
    /\ ev[c] # <<>> /\ ev[c][1].prefix = PrefixLen /\ ev[c][1].got < ev[c][1].L
    /\ pc[d] = "await_drain"

\* C6: for a 3-field request the effective country code is the supplied one,
\* whatever the name holds and whether or not the Geo Resolver is ready, and
\* no Geo Resolver call or backend query is made for it.
C6_DirectCountryVerbatim ==
  \A c \in Conns :
    Len(qs[c]) = 3 =>
      /\ cc[c] = qs[c][2]
      /\ geoCall[c] = <<>> /\ ~dbQuery[c]
      /\ pc[c] \in {"try", "send", "except"}

\* C6 witness: a 3-field request with a Thai name and a country code other
\* than th has been transcribed while the Geo Resolver is ready.
C6_Witness ==
  \E c \in Conns :
    /\ ready /\ Len(qs[c]) = 3 /\ pc[c] = "send"
    /\ contains_thai(Name(c)) /\ qs[c][2] = STR_j /\ strategy[c] = "generic"

\* C7: with a ready Geo Resolver, a 4-field request whose name holds a
\* character of U+4E00..U+9FFF makes the handler call the Geo Resolver with the
\* request's longitude and latitude.
C7_CjkNameQueriesGeo ==
  \A c \in Conns :
    (ready /\ Len(qs[c]) = 4 /\ pc[c] \in Resolved \cup {"raise"}
       /\ contains_cjk_block(Name(c))) =>
      geoCall[c] = << <<qs[c][2], qs[c][3]>> >>

\* C8: with a ready Geo Resolver, a 4-field request whose name holds no CJK
\* character causes no Geo Resolver call, and its effective country code is
\* th if the name holds a character of the Thai block and empty otherwise.
C8_NonCjkNameClassified ==
  \A c \in Conns :
    (ready /\ Len(qs[c]) = 4 /\ pc[c] \in Resolved /\ ~contains_cjk_block(Name(c))) =>
      /\ geoCall[c] = <<>> /\ ~dbQuery[c]
      /\ cc[c] = IF contains_thai_block(Name(c)) THEN STR_th ELSE EmptyStr

\* C9: while the Geo Resolver is not ready, a 4-field request has the empty
\* effective country code, causes no Geo Resolver call and no backend query,
\* raises nothing, and any strategy invoked for it is the generic one.
C9_NotReadyMeansEmptyCountry ==
  \A c \in Conns :
    (~ready /\ Len(qs[c]) = 4) =>
      /\ cc[c] = EmptyStr
      /\ geoCall[c] = <<>> /\ ~dbQuery[c]
      /\ pc[c] \in {"resolve", "try", "send", "except"}
      /\ strategy[c] \in {"none", "generic"}

\* C9 witness: with the Geo Resolver not ready, a 4-field request with a CJK
\* name and coordinates is about to be answered with the generic strategy's text.
C9_Witness ==
  \E c \in Conns :
    /\ ~ready /\ Len(qs[c]) = 4 /\ contains_cjk(Name(c)) /\ qs[c][2] # EmptyStr
    /\ pc[c] = "send" /\ strategy[c] = "generic" /\ result[c] = "text"

\* C10: once tc.transcript was reached, a non-empty name has had exactly the
\* strategy its effective country code selects: jp Japanese, th Thai, mo or hk
\* Cantonese, anything else generic; an empty name has had none.
C10_DispatchTable ==
  \A c \in Conns :
    pc[c] \in {"send", "except"} =>
      IF Name(c) = EmptyStr THEN strategy[c] = "none"
      ELSE /\ cc[c] = STR_jp => strategy[c] = "japanese"
           /\ cc[c] = STR_th => strategy[c] = "thai"
           /\ cc[c] \in {STR_mo, STR_hk} => strategy[c] = "cantonese"
           /\ cc[c] \notin {STR_jp, STR_th, STR_mo, STR_hk} => strategy[c] = "generic"

\* C10 witness: a request with the country code mo is about to be answered by
\* the Cantonese strategy.
C10_Witness ==
  \E c \in Conns :
    /\ pc[c] = "send" /\ cc[c] = STR_mo /\ Name(c) # EmptyStr
    /\ strategy[c] = "cantonese"

\* C11: a failed construction of the Geo Resolver (unreachable psql server,
\* missing or unopenable SQLITE file) leaves the process alive with ready false.
C11_ConstructionFailureDegrades ==
  geoEnv # "ok" => (alive /\ ~ready)

C13_EmptyNameEmptyReply ==
  [][\A c \in Conns :
       (Len(qs[c]) \in {3, 4} /\ Name(c) = EmptyStr) =>
         /\ pc[c] \in {"resolve", "try", "send"}
         /\ strategy[c] = "none"
         /\ pc[c] = "send" => reply[c] = EmptyStr
         /\ (pc[c] = "send" /\ pc'[c] # "send") =>
              (out'[c] = <<[len |-> 0, text |-> EmptyStr]>> /\ pc'[c] = "await_drain")
    ]_vars

\* C13 witness: the request 1/jp/ with its empty name is about to be answered.
C13_Witness ==
  \E c \in Conns :
    /\ pc[c] = "send" /\ Len(qs[c]) = 3 /\ cc[c] = STR_jp /\ Name(c) = EmptyStr

\* C19: while a backend query is in progress the event loop is running its
\* handler: no other handler has a query in progress or is anywhere but
\* suspended at an await or ended.
C19_OneQueryAtATime ==
  \A c \in Conns :
    pc[c] = "query" =>
      /\ running = c
      /\ \A d \in Conns \ {c} :
           pc[d] \in {"idle", "await_read", "await_drain", "await_drain_exc",
                      "closed", "crashed"}

\* C19 witness: a query on the psql backend is in progress while another
\* handler waits for its drain.
C19_Witness ==
  \E c \in Conns, d \in Conns :
    /\ c # d /\ backend = "psql" /\ pc[c] = "query" /\ dbQuery[c]
    /\ pc[d] = "await_drain"

====
